---- MODULE Spec2Model ----
(***************************************************************************)
(* Model of the download portal's viewer page (assets/viewer.js), its      *)
(* record matcher findEntry, and the .s2p converter that shares the page.  *)
(* Strings are sequences of one-character atoms so that trimming,          *)
(* normalisation, percent-decoding and substring tests are computed; an    *)
(* absent field and the empty string, both falsy in the script, are <<>>.  *)
(* The page is taken to hold every element the script looks up by id.      *)
(* Theme buttons, pane titles, raw links, the download button and the      *)
(* keyboard scrolling touch none of the state below and are left out.      *)
(***************************************************************************)
EXTENDS Integers, Sequences, FiniteSets, TLC

VARIABLES
    downloads,      \* window.DOWNLOADS: sequence of records
    p,              \* params(): [title, file]; <<>> stands for absent/empty
    pc,             \* position of the page script
    entry,          \* result of findEntry()
    href,           \* window.location.href: <<>> while on viewer.html
    info,           \* #info textContent
    errEl,          \* #error: sequence of child elements [tag, html]
    codeBox,        \* #code-box textContent
    yamlBox,        \* #yaml-box textContent
    handlers,       \* event listeners attached so far
    s2pFile,        \* s2pFileInput.files[0]: [name, text], NoFile if none
    label,          \* label[for=s2p-file] textContent
    pending,        \* FileReader reads in flight
    clicks,         \* number of convert clicks so far
    generatedLinks, \* children of #generated-links
    linksDisplay,   \* generatedLinks.style.display
    status,         \* #status textContent
    disk,           \* local files the user can pick in the file dialog
    searchValue,    \* index.html: searchInput.value
    timer,          \* index.html: debounce timer t is pending
    containers,     \* index.html: children of the three category containers
    counts,         \* index.html: text of the count-* labels
    filtered,       \* index.html: the list last handed to render
    copyWrites,     \* clipboard writes whose promise has not settled
    copyText,       \* textContent of the copy-code and copy-yaml buttons
    copyTimers,     \* pending setTimeout resets of a copy button's text
    copyClicks,     \* number of clicks on a copy button so far
    console         \* what console.error has logged

vars == <<downloads, p, pc, entry, href, info, errEl, codeBox, yamlBox,
          handlers, s2pFile, label, pending, clicks, generatedLinks,
          linksDisplay, status, disk, searchValue, timer, containers,
          counts, filtered, copyWrites, copyText, copyTimers, copyClicks,
          console>>

pageVars == <<href, info, errEl, codeBox, yamlBox, handlers>>
convVars == <<s2pFile, label, pending, clicks, generatedLinks, linksDisplay,
              status>>
catVars == <<searchValue, timer, containers, counts, filtered>>
copyVars == <<copyWrites, copyText, copyTimers, copyClicks, console>>

(***************************************************************************)
(* Bounds                                                                  *)
(***************************************************************************)
MaxRecs == 2      \* longest record list
MaxClicks == 2    \* convert clicks per page load
MaxLines == 2     \* lines of a converted text
MaxItems == 3     \* longest catalog record list
MaxCopyClicks == 1 \* clicks on the copy buttons per page load

(***************************************************************************)
(* String primitives                                                       *)
(***************************************************************************)
WhiteSpace == {" ", "TAB", "LF", "CR"}

Min(S) == CHOOSE x \in S : \A y \in S : x <= y

\* String.prototype.includes
includes(hay, needle) ==
    \E i \in 0..(Len(hay) - Len(needle)) :
        \A j \in 1..Len(needle) : hay[i + j] = needle[j]

\* String.prototype.trim
RECURSIVE trimStart(_)
trimStart(s) ==
    IF s # <<>> /\ Head(s) \in WhiteSpace THEN trimStart(Tail(s)) ELSE s

RECURSIVE trimEnd(_)
trimEnd(s) ==
    IF s # <<>> /\ s[Len(s)] \in WhiteSpace
    THEN trimEnd(SubSeq(s, 1, Len(s) - 1)) ELSE s

trim(s) == trimEnd(trimStart(s))

\* normalize('NFKC') on one character: the fullwidth letters fold
nfkc(c) ==
    CASE c = "fwx" -> "x"
      [] c = "fwX" -> "X"
      [] OTHER -> c

\* toLowerCase on one character
lower(c) ==
    CASE c = "X" -> "x"
      [] c = "P" -> "p"
      [] c = "S" -> "s"
      [] c = "A" -> "a"
      [] c = "B" -> "b"
      [] OTHER -> c

toLowerCase(s) == [i \in 1..Len(s) |-> lower(s[i])]

\* replace(/\s+/g, ' ')
RECURSIVE collapse(_)
collapse(s) ==
    IF s = <<>> THEN <<>>
    ELSE IF Head(s) \in WhiteSpace
         THEN <<" ">> \o collapse(trimStart(s))
         ELSE <<Head(s)>> \o collapse(Tail(s))

norm(s) ==
    IF s = <<>> THEN <<>>
    ELSE collapse(trim([i \in 1..Len(s) |-> lower(nfkc(s[i]))]))

\* decodeURIComponent: [ok, val]; ok = FALSE stands for the URIError
HexDigits == {"0", "2"}
hexVal(c) == IF c = "2" THEN 2 ELSE 0
chr(b) ==
    CASE b = 32 -> " "
      [] b = 34 -> "QUOT"
      [] b = 0  -> "NUL"
      [] b = 2  -> "STX"
      [] OTHER  -> "?"

RECURSIVE decodeURIComponent(_)
decodeURIComponent(s) ==
    IF s = <<>> THEN [ok |-> TRUE, val |-> <<>>]
    ELSE IF Head(s) # "%"
         THEN LET r == decodeURIComponent(Tail(s))
              IN  IF r.ok THEN [ok |-> TRUE, val |-> <<Head(s)>> \o r.val]
                  ELSE r
         ELSE IF Len(s) < 3 \/ s[2] \notin HexDigits \/ s[3] \notin HexDigits
              THEN [ok |-> FALSE, val |-> <<>>]
              ELSE LET b == 16 * hexVal(s[2]) + hexVal(s[3])
                       r == decodeURIComponent(SubSeq(s, 4, Len(s)))
                   IN  IF b >= 128 THEN [ok |-> FALSE, val |-> <<>>]
                       ELSE IF r.ok
                            THEN [ok |-> TRUE, val |-> <<chr(b)>> \o r.val]
                            ELSE r

(***************************************************************************)
(* findEntry: [kind, idx, tier]; kind is "entry", "null" or "throw"; idx is *)
(* the position of the returned record (its identity), tier names the find *)
(* that returned it                                                        *)
(***************************************************************************)
\* Array.prototype.find over downloads: least of the indices S that satisfy
\* the predicate, 0 if none
find(S) == IF S = {} THEN 0 ELSE Min(S)

Null == [kind |-> "null", idx |-> 0, tier |-> "none"]
Throw == [kind |-> "throw", idx |-> 0, tier |-> "none"]
Found(i, t) == [kind |-> "entry", idx |-> i, tier |-> t]

\* predicates of the title tiers
titleRaw(d, q) == d.title = q
titleDecoded(d, q) ==
    decodeURIComponent(q).ok /\ d.title = decodeURIComponent(q).val
titleNorm(d, q) == norm(d.title) = norm(q)
titlePartial(d, q) == includes(norm(d.title), norm(q))

\* predicates of the file tiers
fileRaw(d, q) == d.filename = q
fileDecoded(d, q) ==
    decodeURIComponent(q).ok /\ d.filename = decodeURIComponent(q).val
fileNorm(d, q) ==
    norm(d.filename) = norm(q) \/ includes(norm(d.filename), norm(q))
filePath(d, q) ==
    \/ d.code_path # <<>> /\ includes(norm(d.code_path), norm(q))
    \/ d.yaml_path # <<>> /\ includes(norm(d.yaml_path), norm(q))

\* first find of the file branch: the raw test short-circuits the decode,
\* which is outside any try block
RECURSIVE fileExact(_, _, _)
fileExact(dl, q, i) ==
    IF i > Len(dl) THEN Null
    ELSE IF fileRaw(dl[i], q) THEN Found(i, "fileExact")
    ELSE IF ~decodeURIComponent(q).ok THEN Throw
    ELSE IF fileDecoded(dl[i], q) THEN Found(i, "fileExact")
    ELSE fileExact(dl, q, i + 1)

pathBranch(dl, q) ==
    LET i == find({k \in 1..Len(dl) : filePath(dl[k], q)})
    IN  IF q # <<>> /\ i # 0 THEN Found(i, "path") ELSE Null

fileBranchPathFirst(dl, q) ==
    IF q = <<>> THEN Null
    ELSE IF pathBranch(dl, q).kind = "entry" THEN pathBranch(dl, q)
    ELSE LET e == fileExact(dl, q, 1)
             i == find({k \in 1..Len(dl) : fileNorm(dl[k], q)})
         IN  IF e.kind # "null" THEN e
             ELSE IF i # 0 THEN Found(i, "fileNorm")
             ELSE Null

fileBranch(dl, q) ==
    IF q = <<>> THEN Null
    ELSE LET e == fileExact(dl, q, 1)
             i == find({k \in 1..Len(dl) : fileNorm(dl[k], q)})
         IN  IF e.kind # "null" THEN e
             ELSE IF i # 0 THEN Found(i, "fileNorm")
             ELSE pathBranch(dl, q)

titleBranchListOrder(dl, q) ==
    LET i == find({k \in 1..Len(dl) :
                      \/ titleRaw(dl[k], q) \/ titleDecoded(dl[k], q)
                      \/ titleNorm(dl[k], q) \/ titlePartial(dl[k], q)})
    IN  IF q # <<>> /\ i # 0 THEN Found(i, "titleAny") ELSE Null

titleBranchNormFirst(dl, q) ==
    IF q = <<>> THEN Null
    ELSE LET i1 == find({k \in 1..Len(dl) : titleRaw(dl[k], q)})
             i2 == find({k \in 1..Len(dl) : titleDecoded(dl[k], q)})
             i3 == find({k \in 1..Len(dl) : titleNorm(dl[k], q)})
             i4 == find({k \in 1..Len(dl) : titlePartial(dl[k], q)})
         IN  IF i3 # 0 THEN Found(i3, "titleNorm")
             ELSE IF i1 # 0 THEN Found(i1, "titleRaw")
             ELSE IF i2 # 0 THEN Found(i2, "titleDecoded")
             ELSE IF i4 # 0 THEN Found(i4, "titlePartial")
             ELSE Null

titleBranch(dl, q) ==
    IF q = <<>> THEN Null
    ELSE LET i1 == find({k \in 1..Len(dl) : titleRaw(dl[k], q)})
             i2 == find({k \in 1..Len(dl) : titleDecoded(dl[k], q)})
             i3 == find({k \in 1..Len(dl) : titleNorm(dl[k], q)})
             i4 == find({k \in 1..Len(dl) : titlePartial(dl[k], q)})
         IN  IF i1 # 0 THEN Found(i1, "titleRaw")
             ELSE IF i2 # 0 THEN Found(i2, "titleDecoded")
             ELSE IF i3 # 0 THEN Found(i3, "titleNorm")
             ELSE IF i4 # 0 THEN Found(i4, "titlePartial")
             ELSE Null

findEntry(dl, q) ==
    IF Len(dl) = 0 THEN Null
    ELSE LET t == titleBranch(dl, q.title)
         IN  IF t.kind = "entry" THEN t ELSE fileBranch(dl, q.file)

(***************************************************************************)
(* Sample data (viewer page)                                               *)
(***************************************************************************)
Rec(t, f, cp, yp, py, ym, l) ==
    [title |-> t, filename |-> f, code_path |-> cp, yaml_path |-> yp,
     code_py |-> py, code_yaml |-> ym, liens |-> l]

\* records that differ in title only
Titles ==
    { <<>>, <<"x">>, <<"X">>, <<"x", " ", "x">>, <<"x", " ", " ", "X">>,
      <<" ">>, <<"x", "%">>, <<"fwx">> }
TitleQueries ==
    { <<"x">>, <<"X">>, <<"x", " ", "x">>, <<" ", "x", " ">>, <<" ">>,
      <<"%", "2", "0">>, <<"x", "%", "2", "0", "x">>, <<"x", "%">>, <<"%">>,
      <<"x", "%", "2">>, <<"x", "x">>, <<"fwX">> }
TitleRecs == {Rec(t, <<>>, <<>>, <<>>, <<>>, <<>>, <<>>) : t \in Titles}

\* records that differ in filename and paths
Filenames == { <<>>, <<"x">>, <<"X">>, <<"x", " ", "x">>, <<"x", "%">> }
CodePaths == { <<>>, <<"p", "x">>, <<"P", "X">> }
YamlPaths == { <<>>, <<"p", "X">> }
FileQueries ==
    { <<"x">>, <<"X">>, <<"x", " ", "x">>, <<"x", "%", "2", "0", "x">>,
      <<"x", "%">>, <<"%">>, <<"p", "x">>, <<"p">>, <<"x", "x">>, <<" ">>,
      <<"P">> }
FileRecs ==
    {Rec(<<>>, f, cp, yp, <<>>, <<>>, <<>>) :
        f \in Filenames, cp \in CodePaths, yp \in YamlPaths}

\* records for queries that carry both parameters
BothRecs ==
    {Rec(t, f, <<>>, <<>>, <<>>, <<>>, <<>>) :
        t \in {<<"x">>, <<"X">>}, f \in {<<"x">>, <<"X">>}}
BothTitles == { <<"x">>, <<"x", "x">>, <<"%">> }
BothFiles == { <<"X">>, <<"x", "x">>, <<"%">> }

\* records of the page model: embedded blobs, raw paths, external link
PageRecs ==
    { Rec(<<"x">>, <<"x">>, <<>>, <<>>, <<"py">>, <<"yaml">>, <<>>),
      Rec(<<"X">>, <<"X">>, <<"p", "x">>, <<>>, <<>>, <<>>, <<" ">>),
      Rec(<<>>, <<"x", "%">>, <<>>, <<"p", "X">>, <<"py">>, <<>>,
          <<" ", "u">>) }
PageParams ==
    { [title |-> <<>>, file |-> <<>>],
      [title |-> <<"x">>, file |-> <<>>],
      [title |-> <<"x", "%", "2", "0", "x">>, file |-> <<>>],
      [title |-> <<>>, file |-> <<"x", "%">>],
      [title |-> <<>>, file |-> <<"%">>],
      [title |-> <<"%">>, file |-> <<"p">>] }

SeqsUpTo(S, n) == UNION {[1..k -> S] : k \in 0..n}

(***************************************************************************)
(* Converter: parseS2P, buildDat, makeDownload                             *)
(***************************************************************************)
\* String.prototype.split on one separator character
RECURSIVE splitAt(_, _)
splitAt(s, sep) ==
    IF \A i \in 1..Len(s) : s[i] # sep THEN <<s>>
    ELSE LET k == Min({i \in 1..Len(s) : s[i] = sep})
         IN  <<SubSeq(s, 1, k - 1)>> \o splitAt(SubSeq(s, k + 1, Len(s)), sep)

\* text.split(/\r?\n/): a CR right before a LF belongs to the separator
chopCR(s) ==
    IF s # <<>> /\ s[Len(s)] = "CR" THEN SubSeq(s, 1, Len(s) - 1) ELSE s
splitLines(text) ==
    LET parts == splitAt(text, "LF")
    IN  [i \in 1..Len(parts) |->
            IF i < Len(parts) THEN chopCR(parts[i]) ELSE parts[i]]

\* line.split(/\s+/) of a trimmed, non-empty line
splitWs(line) == splitAt(collapse(line), " ")

\* Number(token): [nan, v]
Digits == {"0", "1", "2", "3", "4", "5", "6", "7", "8", "9"}
digitVal(c) ==
    CASE c = "0" -> 0 [] c = "1" -> 1 [] c = "2" -> 2 [] c = "3" -> 3
      [] c = "4" -> 4 [] c = "5" -> 5 [] c = "6" -> 6 [] c = "7" -> 7
      [] c = "8" -> 8 [] c = "9" -> 9
RECURSIVE digitsVal(_)
digitsVal(t) ==
    IF t = <<>> THEN 0
    ELSE 10 * digitsVal(SubSeq(t, 1, Len(t) - 1)) + digitVal(t[Len(t)])
Number(t) ==
    IF \A i \in 1..Len(t) : t[i] \in Digits
    THEN [nan |-> FALSE, v |-> digitsVal(t)]
    ELSE [nan |-> TRUE, v |-> 0]

\* 20*Math.log10(Math.hypot(re, im)) in hundredths of a dB, rounded as
\* toFixed(2) rounds it; hypot = 0 gives log10(0) = -Infinity
NegInfinity == [inf |-> TRUE, h |-> 0]
log10x20(re, im) ==
    LET n == re * re + im * im
    IN  IF n = 0 THEN NegInfinity
        ELSE [inf |-> FALSE,
              h |-> CASE n = 1 -> 0   [] n = 2 -> 301 [] n = 3 -> 477
                      [] n = 4 -> 602 [] n = 5 -> 699 [] n = 6 -> 778
                      [] n = 7 -> 845 [] n = 8 -> 903 [] n = 9 -> 954
                      [] n = 10 -> 1000]

\* String(n) for a natural number
digitChar(d) ==
    CASE d = 0 -> "0" [] d = 1 -> "1" [] d = 2 -> "2" [] d = 3 -> "3"
      [] d = 4 -> "4" [] d = 5 -> "5" [] d = 6 -> "6" [] d = 7 -> "7"
      [] d = 8 -> "8" [] d = 9 -> "9"
RECURSIVE natToString(_)
natToString(n) ==
    IF n < 10 THEN <<digitChar(n)>>
    ELSE natToString(n \div 10) \o <<digitChar(n % 10)>>

\* Number.prototype.toFixed(2)
toFixed2(x) ==
    IF x.inf THEN <<"-", "I", "n", "f", "i", "n", "i", "t", "y">>
    ELSE LET a == IF x.h < 0 THEN -x.h ELSE x.h
         IN  (IF x.h < 0 THEN <<"-">> ELSE <<>>)
             \o natToString(a \div 100)
             \o <<".", digitChar((a % 100) \div 10), digitChar(a % 10)>>

\* parseS2P: [freqs, s11, s21]
RECURSIVE parseLinesKeepBad(_)
parseLinesKeepBad(lines) ==
    IF lines = <<>> THEN [freqs |-> <<>>, s11 |-> <<>>, s21 |-> <<>>]
    ELSE LET line == trim(Head(lines))
             tk == splitWs(line)
             skip == \/ line = <<>>
                     \/ line[1] \in {"!", "#"}
             bad == \/ Len(tk) < 5
                    \/ \E i \in 1..5 : Number(tk[i]).nan
             rest == parseLinesKeepBad(Tail(lines))
         IN  IF skip THEN rest
             ELSE IF bad THEN [freqs |-> <<0>> \o rest.freqs,
                               s11 |-> <<log10x20(0, 0)>> \o rest.s11,
                               s21 |-> <<log10x20(0, 0)>> \o rest.s21]
             ELSE [freqs |-> <<Number(tk[1]).v>> \o rest.freqs,
                   s11 |-> <<log10x20(Number(tk[2]).v, Number(tk[3]).v)>>
                           \o rest.s11,
                   s21 |-> <<log10x20(Number(tk[4]).v, Number(tk[5]).v)>>
                           \o rest.s21]

RECURSIVE parseLines(_)
parseLines(lines) ==
    IF lines = <<>> THEN [freqs |-> <<>>, s11 |-> <<>>, s21 |-> <<>>]
    ELSE LET line == trim(Head(lines))
             tk == splitWs(line)
             skip == \/ line = <<>>
                     \/ line[1] \in {"!", "#"}
                     \/ Len(tk) < 5
                     \/ \E i \in 1..5 : Number(tk[i]).nan
             rest == parseLines(Tail(lines))
         IN  IF skip THEN rest
             ELSE [freqs |-> <<Number(tk[1]).v>> \o rest.freqs,
                   s11 |-> <<log10x20(Number(tk[2]).v, Number(tk[3]).v)>>
                           \o rest.s11,
                   s21 |-> <<log10x20(Number(tk[4]).v, Number(tk[5]).v)>>
                           \o rest.s21]

parseS2P(text) == parseLines(splitLines(text))

\* Array.prototype.join
RECURSIVE join(_, _)
join(parts, sep) ==
    IF parts = <<>> THEN <<>>
    ELSE IF Len(parts) = 1 THEN parts[1]
    ELSE parts[1] \o sep \o join(Tail(parts), sep)

\* buildDat: header line, then one "freq TAB dB" line per point
buildDat(freqs, vals, lbl) ==
    join(<<<<"# Frequency(Hz)", "TAB", lbl>>>>
         \o [i \in 1..Len(freqs) |->
                natToString(freqs[i]) \o <<"TAB">> \o toFixed2(vals[i])],
         <<"LF">>)

\* f.name.replace(/\.s2p$/i, '')
stripS2p(name) ==
    IF /\ Len(name) >= 4
       /\ toLowerCase(SubSeq(name, Len(name) - 3, Len(name)))
            = <<".", "s", "2", "p">>
    THEN SubSeq(name, 1, Len(name) - 4)
    ELSE name

\* makeDownload: the <a> element; click records the handler run that made it
makeDownload(text, name, click) ==
    [download |-> name, text |-> text, click |-> click]

(***************************************************************************)
(* Viewer page: texts                                                      *)
(***************************************************************************)
MsgMissing == <<"Parametre manquant. Appeler viewer.html?title=... ou ?file=...">>
MsgNoEntry == <<"Aucune entree correspondante dans downloads.js pour ce title/file.">>
MsgTitles == <<"Titres disponibles (console)">>
LabelDefault == <<"Choisir .s2p">>
StatusChoose == <<"Choisis un fichier .s2p avant de convertir.">>
StatusNoData == <<"Aucune donnee valide trouvee.">>
StatusOk(n) == <<"Conversion OK - ">> \o natToString(n) \o <<" points generes.">>

InitialPane == [kind |-> "initial", text |-> <<>>]
PY_CODE == [kind |-> "PY_CODE", text |-> <<"PY_CODE">>]

\* escapeHtml
escapeChar(c) ==
    CASE c = "&" -> "&amp;"
      [] c = "<" -> "&lt;"
      [] c = ">" -> "&gt;"
      [] c = "QUOT" -> "&quot;"
      [] c = "'" -> "&#39;"
      [] OTHER -> c
escapeHtml(s) == [i \in 1..Len(s) |-> escapeChar(s[i])]

\* showError: replaces the children of #error and clears #info
showError(msg) == <<[tag |-> "div", html |-> escapeHtml(msg)]>>

\* one line of the no-match listing
listLine(d) ==
    <<"* title=", "QUOT">> \o d.title
    \o <<"QUOT", "  filename=", "QUOT">> \o d.filename \o <<"QUOT">>

listingSkipUntitled(dl) ==
    join(SelectSeq([i \in 1..Len(dl) |-> listLine(dl[i])],
                   LAMBDA l : l[3] # "QUOT"), <<"LF">>)

listing(dl) == join([i \in 1..Len(dl) |-> listLine(dl[i])], <<"LF">>)

codePane(e) ==
    IF e.code_py # <<>> THEN [kind |-> "embedded", text |-> e.code_py]
    ELSE IF e.code_path # <<>>
         THEN [kind |-> "rawpath",
               text |-> <<"Pas de code embarque. Chemin brut : ">>
                        \o e.code_path]
         ELSE [kind |-> "none",
               text |-> <<"Aucun code python embarque ni path fourni.">>]

yamlPane(e) ==
    IF e.code_yaml # <<>> THEN [kind |-> "embedded", text |-> e.code_yaml]
    ELSE IF e.yaml_path # <<>>
         THEN [kind |-> "rawpath",
               text |-> <<"Pas de YAML embarque. Chemin brut : ">>
                        \o e.yaml_path]
         ELSE [kind |-> "none",
               text |-> <<"Aucun YAML embarque ni path fourni.">>]

(***************************************************************************)
(* Viewer script (first function of viewer.js), by the path it takes       *)
(***************************************************************************)
hasLiens(e) ==
    e.kind = "entry" /\ trim(downloads[e.idx].liens) # <<>>

ViewerMissing ==
    /\ pc = "viewer"
    /\ p.title = <<>> /\ p.file = <<>>
    /\ info' = MsgMissing
    /\ pc' = "converter"
    /\ UNCHANGED <<downloads, p, entry, href, errEl, codeBox, yamlBox,
                   handlers, disk>>
    /\ UNCHANGED convVars
    /\ UNCHANGED <<catVars, copyVars>>

ViewerThrow ==
    /\ pc = "viewer"
    /\ p.title # <<>> \/ p.file # <<>>
    /\ findEntry(downloads, p).kind = "throw"
    /\ entry' = findEntry(downloads, p)
    /\ pc' = "crashed"
    /\ UNCHANGED <<downloads, p, disk>>
    /\ UNCHANGED pageVars
    /\ UNCHANGED convVars
    /\ UNCHANGED <<catVars, copyVars>>

ViewerRedirect ==
    /\ pc = "viewer"
    /\ p.title # <<>> \/ p.file # <<>>
    /\ hasLiens(findEntry(downloads, p))
    /\ entry' = findEntry(downloads, p)
    /\ href' = downloads[entry'.idx].liens
    /\ pc' = "converter"
    /\ UNCHANGED <<downloads, p, info, errEl, codeBox, yamlBox, handlers,
                   disk>>
    /\ UNCHANGED convVars
    /\ UNCHANGED <<catVars, copyVars>>

ViewerNoMatch ==
    /\ pc = "viewer"
    /\ p.title # <<>> \/ p.file # <<>>
    /\ findEntry(downloads, p).kind = "null"
    /\ entry' = findEntry(downloads, p)
    /\ errEl' = showError(MsgNoEntry)
                \o <<[tag |-> "pre", html |-> escapeHtml(listing(downloads))]>>
    /\ info' = MsgTitles
    /\ pc' = "converter"
    /\ UNCHANGED <<downloads, p, href, codeBox, yamlBox, handlers, disk>>
    /\ UNCHANGED convVars
    /\ UNCHANGED <<catVars, copyVars>>

ViewerPopulate ==
    /\ pc = "viewer"
    /\ p.title # <<>> \/ p.file # <<>>
    /\ findEntry(downloads, p).kind = "entry"
    /\ ~hasLiens(findEntry(downloads, p))
    /\ entry' = findEntry(downloads, p)
    /\ info' = <<>>
    /\ codeBox' = codePane(downloads[entry'.idx])
    /\ yamlBox' = yamlPane(downloads[entry'.idx])
    /\ handlers' = handlers \cup {"keydownCode", "keydownYaml",
                                  "copyCode", "copyYaml"}
    /\ pc' = "converter"
    /\ UNCHANGED <<downloads, p, href, errEl, disk>>
    /\ UNCHANGED convVars
    /\ UNCHANGED <<catVars, copyVars>>

(***************************************************************************)
(* Converter script (second function of viewer.js) and its handlers        *)
(***************************************************************************)
NoFile == [name |-> <<>>, text |-> <<>>]

ConverterScript ==
    /\ pc = "converter"
    /\ handlers' = handlers \cup {"s2pChange", "copyBtn", "convert"}
    /\ codeBox' = PY_CODE
    /\ pc' = IF href # <<>> THEN "unloaded" ELSE "ready"
    /\ UNCHANGED <<downloads, p, entry, href, info, errEl, yamlBox, disk>>
    /\ UNCHANGED convVars
    /\ UNCHANGED <<catVars, copyVars>>

\* change event of the file input
SelectFile(f) ==
    /\ pc = "ready"
    /\ "s2pChange" \in handlers
    /\ f # s2pFile
    /\ s2pFile' = f
    /\ label' = IF f # NoFile THEN f.name ELSE LabelDefault
    /\ UNCHANGED <<downloads, p, pc, entry, disk, pending, clicks,
                   generatedLinks, linksDisplay, status>>
    /\ UNCHANGED pageVars
    /\ UNCHANGED <<catVars, copyVars>>

\* click on the convert button
ClickConvert ==
    /\ pc = "ready"
    /\ "convert" \in handlers
    /\ clicks < MaxClicks
    /\ clicks' = clicks + 1
    /\ generatedLinks' = <<>>
    /\ linksDisplay' = "none"
    /\ IF s2pFile = NoFile
       THEN /\ status' = StatusChoose
            /\ UNCHANGED pending
       ELSE /\ status' = <<>>
            /\ pending' = pending \cup {[click |-> clicks + 1, file |-> s2pFile]}
    /\ UNCHANGED <<downloads, p, pc, entry, disk, s2pFile, label>>
    /\ UNCHANGED pageVars
    /\ UNCHANGED <<catVars, copyVars>>

onloadKeepLinks(r) ==
    LET d == parseS2P(r.file.text)
        base == stripS2p(r.file.name)
    IN  [links |-> generatedLinks
                   \o <<makeDownload(buildDat(d.freqs, d.s11, "S11(dB)"),
                                     base \o <<"_S11.dat">>, r.click),
                        makeDownload(buildDat(d.freqs, d.s21, "S21(dB)"),
                                     base \o <<"_S21.dat">>, r.click)>>,
         display |-> "block",
         status |-> IF d.freqs = <<>> THEN StatusNoData
                    ELSE StatusOk(Len(d.freqs))]

\* reader.onload: what it leaves in [links, display, status]
onload(r) ==
    LET d == parseS2P(r.file.text)
        base == stripS2p(r.file.name)
    IN  IF d.freqs = <<>>
        THEN [links |-> generatedLinks, display |-> linksDisplay,
              status |-> StatusNoData]
        ELSE [links |-> generatedLinks
                        \o <<makeDownload(buildDat(d.freqs, d.s11, "S11(dB)"),
                                          base \o <<"_S11.dat">>, r.click),
                             makeDownload(buildDat(d.freqs, d.s21, "S21(dB)"),
                                          base \o <<"_S21.dat">>, r.click)>>,
              display |-> "block",
              status |-> StatusOk(Len(d.freqs))]

\* completion of one FileReader read
ReadDone(r) ==
    /\ pc = "ready"
    /\ r \in pending
    /\ pending' = pending \ {r}
    /\ generatedLinks' = onload(r).links
    /\ linksDisplay' = onload(r).display
    /\ status' = onload(r).status
    /\ UNCHANGED <<downloads, p, pc, entry, disk, s2pFile, label, clicks>>
    /\ UNCHANGED pageVars
    /\ UNCHANGED <<catVars, copyVars>>

(***************************************************************************)
(* Sample data (converter)                                                 *)
(***************************************************************************)
SampleLines ==
    { <<"1", " ", "0", " ", "0", " ", "1", " ", "1">>,
      <<"2", " ", "1", " ", "0", " ", "0", " ", "0">>,
      <<" ", "1", "0", " ", " ", "1", " ", "2", "TAB", "2", " ", "2", " ",
        "x">>,
      <<"1", " ", "0", " ", "0", " ", "1">>,
      <<"1", " ", "x", " ", "0", " ", "1", " ", "1">>,
      <<"#", " ", "1", " ", "0", " ", "0", " ", "1", " ", "1">>,
      <<"!", "c">>,
      <<" ">> }
LineEnds == { <<"LF">>, <<"CR", "LF">> }
Texts ==
    {join(ls, eol) : ls \in SeqsUpTo(SampleLines, MaxLines), eol \in LineEnds}

NameA == <<"a", ".", "s", "2", "p">>
NameB == <<"b", ".", "S", "2", "P">>
PageFiles ==
    { [name |-> NameA,
       text |-> <<"2", " ", "1", " ", "0", " ", "1", " ", "1", "LF",
                  "1", " ", "0", " ", "0", " ", "2", " ", "2">>],
      [name |-> NameB,
       text |-> <<"#", "c", "LF", "1", " ", "0", " ", "0", " ", "1">>] }

(***************************************************************************)
(* Specifications                                                          *)
(***************************************************************************)
\* index.html before main.js runs: empty containers and count labels
CategoryIds == {"algorithme", "bibliographie", "autre"}
CountIds == {"count-alg", "count-bib", "count-aut"}
NoContainers == [c \in CategoryIds |-> [note |-> FALSE, cards |-> <<>>]]
NoCounts == [c \in CountIds |-> <<>>]

\* viewer.html: the copy buttons as the page shows them before any click
CopyButtons == {"copy-code", "copy-yaml"}
CopyLabels ==
    [b \in CopyButtons |->
        IF b = "copy-code" THEN <<"Copier le code">> ELSE <<"Copier le YAML">>]
NoTimers == [b \in CopyButtons |-> 0]

PageStart ==
    /\ entry = Null
    /\ href = <<>>
    /\ info = <<>>
    /\ errEl = <<>>
    /\ codeBox = InitialPane
    /\ yamlBox = InitialPane
    /\ handlers = {}
    /\ s2pFile = NoFile
    /\ label = LabelDefault
    /\ pending = {}
    /\ clicks = 0
    /\ generatedLinks = <<>>
    /\ linksDisplay = "none"
    /\ status = <<>>
    /\ searchValue = <<>>
    /\ timer = FALSE
    /\ containers = NoContainers
    /\ counts = NoCounts
    /\ filtered = <<>>
    /\ copyWrites = {}
    /\ copyText = CopyLabels
    /\ copyTimers = NoTimers
    /\ copyClicks = 0
    /\ console = {}

\* the viewer page with its converter
Init ==
    /\ downloads \in SeqsUpTo(PageRecs, MaxRecs)
    /\ p \in PageParams
    /\ disk = PageFiles
    /\ pc = "viewer"
    /\ PageStart

Next ==
    \/ ViewerMissing
    \/ ViewerThrow
    \/ ViewerRedirect
    \/ ViewerNoMatch
    \/ ViewerPopulate
    \/ ConverterScript
    \/ \E f \in disk \cup {NoFile} : SelectFile(f)
    \/ ClickConvert
    \/ \E r \in pending : ReadDone(r)

Spec == Init /\ [][Next]_vars

\* findEntry as a function of (downloads, p)
InitFind ==
    /\ \/ /\ downloads \in SeqsUpTo(TitleRecs, MaxRecs)
          /\ p \in {[title |-> t, file |-> <<>>] : t \in TitleQueries}
       \/ /\ downloads \in SeqsUpTo(FileRecs, MaxRecs)
          /\ p \in {[title |-> <<>>, file |-> f] : f \in FileQueries}
       \/ /\ downloads \in SeqsUpTo(BothRecs, MaxRecs)
          /\ p \in {[title |-> t, file |-> f] :
                        t \in BothTitles, f \in BothFiles}
    /\ disk = {}
    /\ pc = "viewer"
    /\ PageStart

CallFindEntry ==
    /\ pc = "viewer"
    /\ entry' = findEntry(downloads, p)
    /\ pc' = "found"
    /\ UNCHANGED <<downloads, p, disk>>
    /\ UNCHANGED pageVars
    /\ UNCHANGED convVars
    /\ UNCHANGED <<catVars, copyVars>>

SpecFind == InitFind /\ [][CallFindEntry]_vars

\* the converter on one local file, from the page loaded without parameters
InitConv ==
    /\ downloads = <<>>
    /\ p = [title |-> <<>>, file |-> <<>>]
    /\ disk \in {{[name |-> NameA, text |-> t]} : t \in Texts}
    /\ pc = "viewer"
    /\ PageStart

NextConv ==
    \/ ViewerMissing
    \/ ConverterScript
    \/ \E f \in disk \cup {NoFile} : SelectFile(f)
    \/ ClickConvert
    \/ \E r \in pending : ReadDone(r)

SpecConv == InitConv /\ [][NextConv]_vars

(***************************************************************************)
(* Copy buttons of the viewer page.  #copy-code gets a click listener from *)
(* the viewer function (when it reaches its end) and another from the      *)
(* converter function; #copy-yaml only from the viewer function.  A click  *)
(* runs each listener of the button up to its await: one clipboard write   *)
(* per listener, settled later by the browser, fulfilled or rejected.      *)
(***************************************************************************)
CopyError == <<"NotAllowedError: Write permission denied.">>
MsgCopy == <<"Impossible de copier dans le presse-papier : ">> \o CopyError
Copied == <<"Copie OK">>

listenersOf(b) ==
    IF b = "copy-code" THEN handlers \cap {"copyCode", "copyBtn"}
    ELSE handlers \cap {"copyYaml"}

\* click on a copy button: each listener starts its write
ClickCopy(b, rejected) ==
    /\ pc = "ready"
    /\ copyClicks < MaxCopyClicks
    /\ listenersOf(b) # {}
    /\ rejected \subseteq listenersOf(b)
    /\ copyClicks' = copyClicks + 1
    /\ copyWrites' = copyWrites \cup
           { [click |-> copyClicks + 1, button |-> b, listener |-> h,
              box |-> IF b = "copy-code" THEN codeBox ELSE yamlBox,
              ok |-> h \notin rejected, settled |-> FALSE]
             : h \in listenersOf(b) }
    /\ UNCHANGED <<downloads, p, pc, entry, disk, copyText, copyTimers,
                   console>>
    /\ UNCHANGED <<pageVars, convVars, catVars>>

\* the write settles and the listener resumes after its await
CopySettle(w) ==
    /\ pc = "ready"
    /\ w \in copyWrites
    /\ ~w.settled
    /\ copyWrites' = (copyWrites \ {w}) \cup {[w EXCEPT !.settled = TRUE]}
    /\ IF w.ok
       THEN /\ copyText' = [copyText EXCEPT ![w.button] = Copied]
            /\ copyTimers' = [copyTimers EXCEPT ![w.button] = @ + 1]
            /\ UNCHANGED <<errEl, info, console>>
       ELSE IF w.listener = "copyBtn"
       THEN /\ console' = console \cup {CopyError}
            /\ UNCHANGED <<errEl, info, copyText, copyTimers>>
       ELSE /\ errEl' = showError(MsgCopy)
            /\ info' = <<>>
            /\ UNCHANGED <<console, copyText, copyTimers>>
    /\ UNCHANGED <<downloads, p, pc, entry, disk, copyClicks, href, codeBox,
                   yamlBox, handlers>>
    /\ UNCHANGED <<convVars, catVars>>

\* a 1200 ms timer puts the label of the button back
CopyReset(b) ==
    /\ pc = "ready"
    /\ copyTimers[b] > 0
    /\ copyTimers' = [copyTimers EXCEPT ![b] = @ - 1]
    /\ copyText' = [copyText EXCEPT ![b] = CopyLabels[b]]
    /\ UNCHANGED <<downloads, p, pc, entry, disk, copyWrites, copyClicks,
                   console>>
    /\ UNCHANGED <<pageVars, convVars, catVars>>

NextCopy ==
    \/ ViewerMissing
    \/ ViewerThrow
    \/ ViewerRedirect
    \/ ViewerNoMatch
    \/ ViewerPopulate
    \/ ConverterScript
    \/ \E b \in CopyButtons : \E rejected \in SUBSET handlers :
           ClickCopy(b, rejected)
    \/ \E w \in copyWrites : CopySettle(w)
    \/ \E b \in CopyButtons : CopyReset(b)

SpecCopy == Init /\ [][NextCopy]_vars

(***************************************************************************)
(* Catalog page (assets/main.js).  The file holds two blocks: a            *)
(* DOMContentLoaded handler with an immediate input listener and a render  *)
(* without count labels, and a function run at once with a debounced input *)
(* listener and a render with count labels.  Lists of records are lists of *)
(* positions in window.DOWNLOADS (the objects themselves).  The tab        *)
(* buttons and the click on a card change no state modelled here.          *)
(* DOMContentLoaded is dispatched when the parser finishes the document    *)
(* that the script ends, so the user's input starts after it.              *)
(***************************************************************************)
CatRec(t, f, d, c) ==
    [title |-> t, filename |-> f, description |-> d, category |-> c]

sAlgorithme == <<"a", "l", "g", "o", "r", "i", "t", "h", "m", "e">>
sAlgorithm == <<"a", "l", "g", "o", "r", "i", "t", "h", "m">>
sAlgo == <<"a", "l", "g", "o">>
sBibliographie ==
    <<"b", "i", "b", "l", "i", "o", "g", "r", "a", "p", "h", "i", "e">>
sBiblio == <<"b", "i", "b", "l", "i", "o">>
sAutre == <<"a", "u", "t", "r", "e">>

CatRecs ==
    { CatRec(<<"x">>, <<"x">>, <<>>, sAlgorithme),
      CatRec(<<"X">>, <<>>, <<"p">>, <<"A", "l", "g", "o">>),
      CatRec(<<>>, <<"p">>, <<>>, <<" ">> \o sBiblio \o <<" ">>),
      CatRec(<<"x">>, <<"X">>, <<"x">>, <<>>),
      CatRec(<<"p">>, <<"x">>, <<>>, <<"z", "i", "p">>),
      CatRec(<<>>, <<"X">>, <<"p", " ", "x">>, sBibliographie),
      CatRec(<<"p">>, <<>>, <<>>, sAlgorithm) }
SearchValues == { <<>>, <<"X">>, <<"x", " ", "x">>, <<"z">> }

\* bucket of a record: category, aliases folded, anything else to autre
catKeyNoAlias(it) ==
    LET cat == trim(toLowerCase(IF it.category # <<>> THEN it.category
                                ELSE sAutre))
    IN  IF cat = sAlgorithme THEN "algorithme"
        ELSE IF cat = sBibliographie THEN "bibliographie"
        ELSE "autre"

catKey(it) ==
    LET cat == trim(toLowerCase(IF it.category # <<>> THEN it.category
                                ELSE sAutre))
        folded == IF cat = sAlgorithm \/ cat = sAlgo THEN sAlgorithme
                  ELSE IF cat = sBiblio THEN sBibliographie
                  ELSE cat
    IN  IF folded = sAlgorithme THEN "algorithme"
        ELSE IF folded = sBibliographie THEN "bibliographie"
        ELSE "autre"

\* filtered.forEach(it => grouped[key].push(it))
RECURSIVE pushAll(_, _, _)
pushAll(items, list, grouped) ==
    IF list = <<>> THEN grouped
    ELSE LET key == catKey(items[Head(list)])
         IN  pushAll(items, Tail(list),
                     [grouped EXCEPT ![key] = Append(@, Head(list))])
grouping(items, list) ==
    pushAll(items, list, [c \in CategoryIds |-> <<>>])

\* makeCard: the card of the record at position i
makeCard(items, i) ==
    LET filename == trim(items[i].filename)
    IN  [item |-> i,
         h3 |-> IF items[i].title # <<>> THEN items[i].title ELSE filename,
         open |-> IF trim(toLowerCase(items[i].category)) = sAlgorithme
                  THEN "viewer" ELSE "file"]

\* what render leaves in the category containers
rendered(items, list) ==
    [c \in CategoryIds |->
        LET g == grouping(items, list)[c]
        IN  [note |-> g = <<>>,
             cards |-> [k \in 1..Len(g) |-> makeCard(items, g[k])]]]

\* what render (second block) leaves in the count labels
countId(c) ==
    IF c = "bibliographie" THEN "count-bib"
    ELSE IF c = "algorithme" THEN "count-alg" ELSE "count-aut"
countLabels(items, list) ==
    [id \in CountIds |->
        LET c == CHOOSE c \in CategoryIds : countId(c) = id
        IN  natToString(Len(grouping(items, list)[c])) \o <<" fichiers">>]

\* filterItems
hay(it) == toLowerCase(it.title \o <<" ">> \o it.filename \o <<" ">>
                       \o it.description)
allItems(items) == [i \in 1..Len(items) |-> i]
filterItemsTitled(items, q) ==
    SelectSeq(allItems(items),
              LAMBDA i : /\ items[i].title # <<>>
                         /\ includes(hay(items[i]), toLowerCase(q)))
filterItems(items, q) ==
    IF q = <<>> THEN allItems(items)
    ELSE SelectSeq(allItems(items),
                   LAMBDA i : includes(hay(items[i]), toLowerCase(q)))

viewerVars == <<p, entry, disk>>

\* main.js runs: registers the DOMContentLoaded handler (first block), then
\* the second block renders every record and listens to the search box
CatalogScript ==
    /\ pc = "catalog"
    /\ handlers' = handlers \cup {"DOMContentLoaded", "inputDebounced"}
    /\ filtered' = allItems(downloads)
    /\ containers' = rendered(downloads, allItems(downloads))
    /\ counts' = countLabels(downloads, allItems(downloads))
    /\ pc' = "catalogLoading"
    /\ UNCHANGED <<downloads, searchValue, timer, href, info, errEl, codeBox,
                   yamlBox>>
    /\ UNCHANGED <<viewerVars, convVars, copyVars>>

\* the DOMContentLoaded handler: its render writes no count label
DomContentLoaded ==
    /\ pc = "catalogLoading"
    /\ "DOMContentLoaded" \in handlers
    /\ handlers' = handlers \cup {"inputImmediate"}
    /\ filtered' = filterItems(downloads, <<>>)
    /\ containers' = rendered(downloads, filterItems(downloads, <<>>))
    /\ pc' = "catalogReady"
    /\ UNCHANGED <<downloads, searchValue, timer, counts, href, info, errEl,
                   codeBox, yamlBox>>
    /\ UNCHANGED <<viewerVars, convVars, copyVars>>

\* input event on the search box: the debounced listener (re)starts the
\* timer, then the immediate listener renders
InputNoTimer(v) ==
    /\ pc = "catalogReady"
    /\ v # searchValue
    /\ searchValue' = v
    /\ IF "inputImmediate" \in handlers
       THEN /\ filtered' = filterItems(downloads, v)
            /\ containers' = rendered(downloads, filterItems(downloads, v))
       ELSE UNCHANGED <<filtered, containers>>
    /\ UNCHANGED <<downloads, pc, counts, timer>>
    /\ UNCHANGED <<viewerVars, pageVars, convVars, copyVars>>

Input(v) ==
    /\ pc = "catalogReady"
    /\ v # searchValue
    /\ searchValue' = v
    /\ timer' = ("inputDebounced" \in handlers)
    /\ IF "inputImmediate" \in handlers
       THEN /\ filtered' = filterItems(downloads, v)
            /\ containers' = rendered(downloads, filterItems(downloads, v))
       ELSE UNCHANGED <<filtered, containers>>
    /\ UNCHANGED <<downloads, pc, counts>>
    /\ UNCHANGED <<viewerVars, pageVars, convVars, copyVars>>

\* the debounce timer fires: doSearch reads the search box then
TimerFire ==
    /\ pc = "catalogReady"
    /\ timer
    /\ timer' = FALSE
    /\ filtered' = filterItems(downloads, searchValue)
    /\ containers' = rendered(downloads, filterItems(downloads, searchValue))
    /\ counts' = countLabels(downloads, filterItems(downloads, searchValue))
    /\ UNCHANGED <<downloads, pc, searchValue>>
    /\ UNCHANGED <<viewerVars, pageVars, convVars, copyVars>>

InitCatalog ==
    /\ downloads \in SeqsUpTo(CatRecs, MaxItems)
    /\ p = [title |-> <<>>, file |-> <<>>]
    /\ disk = {}
    /\ pc = "catalog"
    /\ PageStart

NextCatalog ==
    \/ CatalogScript
    \/ DomContentLoaded
    \/ \E v \in SearchValues : Input(v)
    \/ TimerFire

SpecCatalog == InitCatalog /\ [][NextCatalog]_vars

(***************************************************************************)
(* Properties                                                              *)
(***************************************************************************)
\* the lookup script and the converter script have both run
Loaded == pc \in {"ready", "unloaded"}

\* C1: whenever the matcher returned a record whose liens is non-empty after
\* trimming, the page navigates to liens and neither the code pane nor the
\* YAML pane has been given any content.
C1_RedirectLeavesPanesEmpty ==
    hasLiens(entry) =>
        /\ href = downloads[entry.idx].liens
        /\ codeBox = InitialPane
        /\ yamlBox = InitialPane

\* C2: findEntry never throws, whatever the query string.
C2_FindEntryNeverThrows == entry.kind # "throw"

\* text shown by an element whose innerHTML is html
unescapeChar(c) ==
    CASE c = "&amp;" -> "&"
      [] c = "&lt;" -> "<"
      [] c = "&gt;" -> ">"
      [] c = "&quot;" -> "QUOT"
      [] c = "&#39;" -> "'"
      [] OTHER -> c
textContent(html) == [i \in 1..Len(html) |-> unescapeChar(html[i])]

\* a data line as the converter's contract defines it: not empty, not a
\* comment, at least 5 fields, the first 5 numeric
fields(line) == splitWs(trim(line))
IsDataLine(line) ==
    /\ trim(line) # <<>>
    /\ trim(line)[1] \notin {"#", "!"}
    /\ Len(fields(line)) >= 5
    /\ \A i \in 1..5 : ~Number(fields(line)[i]).nan
DataLines(text) == SelectSeq(splitLines(text), IsDataLine)

\* rows of a generated table (after its header) and their dB column
rowsOf(link) == Tail(splitAt(link.text, "LF"))
dbColumn(row) == splitAt(row, "TAB")[2]
IsS11(link) == link.download[Len(link.download)] = "_S11.dat"
IsFinite2(s) ==
    /\ Len(s) >= 4
    /\ s[Len(s) - 2] = "."
    /\ \A i \in 1..Len(s) :
          \/ s[i] \in Digits
          \/ i = Len(s) - 2
          \/ i = 1 /\ s[i] = "-"
Sentinel == <<"-", "1", "0", "0", ".", "0", "0">>
TheFile == CHOOSE f \in disk : TRUE

\* C3: every data line whose S11 (S21) pair is 0, 0 gives a row with the
\* sentinel -100.00 in the dB column of the S11 (S21) table, and no row holds
\* an infinite or non-numeric dB value.
C3_ZeroMagnitudeSentinel ==
    \A k \in 1..Len(generatedLinks) :
        LET link == generatedLinks[k]
            data == DataLines(TheFile.text)
            rows == rowsOf(link)
        IN  \A i \in 1..Len(rows) :
                /\ IsFinite2(dbColumn(rows[i]))
                /\ i <= Len(data) =>
                     LET f == fields(data[i])
                         re == IF IsS11(link) THEN f[2] ELSE f[4]
                         im == IF IsS11(link) THEN f[3] ELSE f[5]
                     IN  (Number(re).v = 0 /\ Number(im).v = 0)
                            => dbColumn(rows[i]) = Sentinel

\* C4: once every started read has completed, the generated-links area holds
\* only the links of the most recent click, at most two of them.
C4_LinksOfLastClickOnly ==
    (pc = "ready" /\ pending = {}) =>
        /\ Len(generatedLinks) <= 2
        /\ \A k \in 1..Len(generatedLinks) : generatedLinks[k].click = clicks

\* the four title tiers, in the order the contract gives them
TitleTier(k, d, q) ==
    CASE k = 1 -> d.title = q
      [] k = 2 -> /\ decodeURIComponent(q).ok
                  /\ d.title = decodeURIComponent(q).val
      [] k = 3 -> norm(d.title) = norm(q)
      [] k = 4 -> includes(norm(d.title), norm(q))
TierHit(k) == {i \in 1..Len(downloads) : TitleTier(k, downloads[i], p.title)}
Returned(i) == entry.kind = "entry" /\ entry.idx = i

\* C5 as stated: if the title query equals R.title exactly, findEntry returns
\* R, wherever R stands in the list.
C5_ExactTitleReturnsThatRecord ==
    (pc = "found" /\ p.title # <<>>) =>
        \A i \in 1..Len(downloads) :
            downloads[i].title = p.title => Returned(i)

\* C5 amended: if the non-empty title query equals R.title exactly and no
\* record before R in the list has that same title, findEntry returns R; in
\* general it returns the first record whose title equals the query.
C5_ExactTitleReturnsFirstSuch ==
    (pc = "found" /\ p.title # <<>>) =>
        \A i \in 1..Len(downloads) :
            (/\ downloads[i].title = p.title
             /\ \A j \in 1..(i - 1) : downloads[j].title # p.title)
                => Returned(i)

\* C5 witness: the exact match stands second, behind a record that matches
\* the query in a later tier only.
C5_Witness ==
    /\ pc = "found"
    /\ Len(downloads) = 2
    /\ downloads[2].title = p.title
    /\ downloads[1].title # p.title
    /\ 1 \in TierHit(3)
    /\ Returned(2)

\* C6: for a title query the tiers are tried in the order raw, decoded,
\* normalized, partial; the result is the first record in list order of the
\* earliest tier that any record satisfies.
C6_EarliestTierFirstRecord ==
    (pc = "found" /\ p.title # <<>>) =>
        \A k \in 1..4 :
            (TierHit(k) # {} /\ \A e \in 1..(k - 1) : TierHit(e) = {})
                => Returned(Min(TierHit(k)))

\* C6 witness: the first record satisfies only the partial tier, the second
\* one an earlier tier, and the second one is returned.
C6_Witness ==
    /\ pc = "found"
    /\ Len(downloads) = 2
    /\ 1 \in TierHit(4) /\ 1 \notin TierHit(3)
    /\ TierHit(1) = {} /\ TierHit(2) = {}
    /\ 2 \in TierHit(3)
    /\ Returned(2)

\* filename match of the tiers before the path tier
FileEarly(d, q) ==
    \/ d.filename = q
    \/ decodeURIComponent(q).ok /\ d.filename = decodeURIComponent(q).val
    \/ norm(d.filename) = norm(q)
    \/ includes(norm(d.filename), norm(q))
PathHit(d, q) ==
    \/ d.code_path # <<>> /\ includes(norm(d.code_path), norm(q))
    \/ d.yaml_path # <<>> /\ includes(norm(d.yaml_path), norm(q))
ByPathOnly ==
    /\ entry.kind = "entry"
    /\ p.file # <<>>
    /\ ~FileEarly(downloads[entry.idx], p.file)
    /\ p.title = <<>> \/ \A k \in 1..4 : entry.idx \notin TierHit(k)

\* C7: for a file query a record is returned on the basis of path containment
\* only when no record of the list matches the query by filename in the
\* earlier tiers, whatever the list order.
C7_PathIsLastResort ==
    (pc = "found" /\ ByPathOnly) =>
        /\ PathHit(downloads[entry.idx], p.file)
        /\ \A i \in 1..Len(downloads) : ~FileEarly(downloads[i], p.file)

\* C7 witness: the second record is returned on its path alone.
C7_Witness ==
    /\ pc = "found"
    /\ ByPathOnly
    /\ Len(downloads) = 2
    /\ entry.idx = 2

\* C8: loaded with neither title nor file, the viewer shows the guidance and
\* does nothing else: no lookup, no redirect, no pane content, no copy or
\* convert handler.
C8_MissingParameterIsTerminal ==
    (p.title = <<>> /\ p.file = <<>> /\ pc # "viewer") =>
        /\ info = MsgMissing
        /\ entry = Null
        /\ href = <<>>
        /\ codeBox = InitialPane
        /\ yamlBox = InitialPane
        /\ handlers \cap {"copyCode", "copyYaml", "copyBtn", "convert"} = {}

\* the lookup ran and findEntry returned no record
NoMatch ==
    /\ pc \in {"converter", "ready"}
    /\ p.title # <<>> \/ p.file # <<>>
    /\ entry.kind = "null"
listingLines == splitAt(textContent(errEl[2].html), "LF")

\* C9: when findEntry returns no record for a non-empty list, the error
\* state lists one line per record, in list order, with that record's title
\* and filename; the lookup leaves the code and YAML panes unpopulated.
C9_NoMatchListsEveryRecord ==
    (NoMatch /\ Len(downloads) > 0) =>
        /\ Len(errEl) = 2
        /\ errEl[1] = [tag |-> "div", html |-> MsgNoEntry]
        /\ errEl[2].tag = "pre"
        /\ Len(listingLines) = Len(downloads)
        /\ \A i \in 1..Len(downloads) :
              /\ includes(listingLines[i],
                          <<"* title=", "QUOT">> \o downloads[i].title
                          \o <<"QUOT">>)
              /\ includes(listingLines[i],
                          <<"  filename=", "QUOT">> \o downloads[i].filename
                          \o <<"QUOT">>)
        /\ pc = "converter" => codeBox = InitialPane
        /\ codeBox.kind \in {"initial", "PY_CODE"}
        /\ yamlBox = InitialPane

\* C9 witness: no match on a list of two records, one of them untitled.
C9_Witness ==
    /\ NoMatch
    /\ pc = "ready"
    /\ Len(downloads) = 2
    /\ downloads[1].title = <<>>
    /\ downloads[2].title # <<>>

\* C10: a conversion of a text without any data line ends in the "no valid
\* data" status and creates no link; links are created only by a conversion
\* that parsed at least one data line, so no table without rows exists.
C10_NoDataNoLinks ==
    [][/\ \A r \in pending :
            (pending' = pending \ {r} /\ DataLines(r.file.text) = <<>>)
                => (status' = StatusNoData /\ generatedLinks' = generatedLinks)
       /\ (generatedLinks' # generatedLinks /\ generatedLinks' # <<>>)
            => /\ \E r \in pending :
                    /\ pending' = pending \ {r}
                    /\ DataLines(r.file.text) # <<>>
               /\ \A k \in 1..Len(generatedLinks') :
                    rowsOf(generatedLinks'[k]) # <<>>]_vars

\* C10 witness: a conversion of a text without data lines has completed.
C10_Witness ==
    /\ clicks > 0
    /\ pending = {}
    /\ DataLines(TheFile.text) = <<>>
    /\ TheFile.text # <<>>
    /\ status = StatusNoData
    /\ generatedLinks = <<>>

\* frequency column of a table row
freqColumn(row) == splitAt(row, "TAB")[1]

\* C11: each table holds exactly one row per data line of the input, in the
\* order of those lines; comment lines, empty lines, lines with fewer than 5
\* fields and lines with a non-numeric field among the first 5 give no row
\* and do not stop the lines after them from being converted.
C11_OneRowPerDataLine ==
    \A k \in 1..Len(generatedLinks) :
        LET rows == rowsOf(generatedLinks[k])
            data == DataLines(TheFile.text)
        IN  /\ Len(rows) = Len(data)
            /\ \A i \in 1..Len(rows) :
                  freqColumn(rows[i])
                      = natToString(Number(fields(data[i])[1]).v)

\* C11 witness: a malformed line stands before a data line and the tables
\* were generated.
C11_Witness ==
    /\ generatedLinks # <<>>
    /\ pending = {}
    /\ Len(splitLines(TheFile.text)) = 2
    /\ trim(splitLines(TheFile.text)[1]) # <<>>
    /\ trim(splitLines(TheFile.text)[1])[1] \notin {"#", "!"}
    /\ ~IsDataLine(splitLines(TheFile.text)[1])
    /\ IsDataLine(splitLines(TheFile.text)[2])

OnCatalog == pc \in {"catalogLoading", "catalogReady"}
AlgorithmeNames == {sAlgorithme, sAlgorithm, sAlgo}
BibliographieNames == {sBibliographie, sBiblio}
Bucket(it) ==
    LET cat == trim(toLowerCase(it.category))
    IN  IF cat \in AlgorithmeNames THEN "algorithme"
        ELSE IF cat \in BibliographieNames THEN "bibliographie"
        ELSE "autre"
cardItems(c) == [k \in 1..Len(containers[c].cards) |-> containers[c].cards[k].item]
positionIn(list, i) == CHOOSE k \in 1..Len(list) : list[k] = i

\* C12: render partitions the list it is given into the three buckets: each
\* record of the list has exactly one card, in the container of its category
\* (algorithm/algo count as algorithme, biblio as bibliographie, anything
\* else or nothing as autre), no container holds a card of a record outside
\* the list, and the cards of a container follow the order of the list.
C12_RenderPartitions ==
    OnCatalog =>
        /\ \A k \in 1..Len(filtered) :
              \A c \in CategoryIds :
                  Cardinality({j \in 1..Len(cardItems(c)) :
                                  cardItems(c)[j] = filtered[k]})
                      = IF c = Bucket(downloads[filtered[k]]) THEN 1 ELSE 0
        /\ \A c \in CategoryIds :
              /\ \A j \in 1..Len(cardItems(c)) :
                    \E k \in 1..Len(filtered) : filtered[k] = cardItems(c)[j]
              /\ \A i, j \in 1..Len(cardItems(c)) :
                    i < j => positionIn(filtered, cardItems(c)[i])
                                 < positionIn(filtered, cardItems(c)[j])

C12_Witness ==
    /\ pc = "catalogReady"
    /\ searchValue # <<>>
    /\ Len(filtered) < Len(downloads)
    /\ Len(containers["algorithme"].cards) = 2
    /\ downloads[filtered[1]].category # downloads[filtered[2]].category

\* C13: whatever was searched before, the list filterItems gives for the
\* empty search value is the whole record list, same length and same order,
\* and no step changes the record list.
C13_EmptyQueryGivesFullList ==
    [][/\ downloads' = downloads
       /\ (pc' = "catalogReady" /\ searchValue' = <<>>) =>
              /\ Len(filtered') = Len(downloads)
              /\ \A i \in 1..Len(downloads) : filtered'[i] = i]_vars

C13_Witness ==
    /\ pc = "catalogReady"
    /\ searchValue = <<>>
    /\ Len(downloads) = MaxItems
    /\ Len(filtered) = Len(downloads)
    /\ timer
    /\ \A id \in CountIds : counts[id] = <<"0", " fichiers">>

Shown(c) ==
    SelectSeq([i \in 1..Len(downloads) |-> i],
              LAMBDA i : /\ Bucket(downloads[i]) = c
                         /\ \/ searchValue = <<>>
                            \/ includes(hay(downloads[i]),
                                        toLowerCase(searchValue)))
CountLabelOf(c) ==
    IF c = "algorithme" THEN counts["count-alg"]
    ELSE IF c = "bibliographie" THEN counts["count-bib"]
    ELSE counts["count-aut"]

\* C15: on the catalog page, whenever no debounce timer is pending, each
\* category container shows the cards of the records that match the current
\* search value and fall in that category, in list order (or the empty note
\* when there is none), and each count label shows their number.
C15_SettledDisplayMatchesSearch ==
    (OnCatalog /\ ~timer) =>
        \A c \in CategoryIds :
            /\ cardItems(c) = Shown(c)
            /\ containers[c].note = (Shown(c) = <<>>)
            /\ CountLabelOf(c) = natToString(Len(Shown(c))) \o <<" fichiers">>

C15_Witness ==
    /\ pc = "catalogReady"
    /\ ~timer
    /\ searchValue # <<>>
    /\ \E c \in CategoryIds : Shown(c) # <<>>
    /\ \E c \in CategoryIds :
          \E i \in 1..Len(downloads) :
              /\ Bucket(downloads[i]) = c
              /\ \A k \in 1..Len(Shown(c)) : Shown(c)[k] # i

writesOf(n) == {w \in copyWrites : w.click = n}

\* C14: once every clipboard write started by a click on a copy button has
\* settled and one of them was rejected, the error box of the page shows the
\* message with the description of the failure; this in every state of the
\* page where the button has a listener, whichever way the lookup ended.
C14_FailedCopyShowsError ==
    \A n \in 1..copyClicks :
        (/\ \A w \in writesOf(n) : w.settled
         /\ \E w \in writesOf(n) : ~w.ok)
            => errEl = showError(MsgCopy)
====
